---- MODULE Spec2Model ----
(***************************************************************************)
(* Model of src/src/mayautils.py: class SceneFile.                         *)
(*                                                                         *)
(* Python strings and paths are sequences of one-character strings, so     *)
(* that formatting, splitting, globbing and integer parsing are computed   *)
(* the way the code computes them.                                         *)
(***************************************************************************)
EXTENDS Integers, Sequences, FiniteSets, TLC

VARIABLES
    files,     \* file system: path of every file -> process that last wrote it (0: nobody)
    dirs,      \* file system: the directories that exist
    writes,    \* file system: the number of files written so far
    sceneName, \* host: per process, the path of the open scene (empty: none open)
    ctorArgs,  \* per process, the arguments given to SceneFile(...)
    obj,       \* per process, the SceneFile object's fields
    pc,        \* per process, the position in the running method
    op,        \* per process, the method running or last run
    exc,       \* per process, the exception the last method raised to its caller
    ev,        \* per process, the host calls made by the method running or last run
    entry,     \* per process, the object's fields when the method was called
    before,    \* per process, the file system's files when the method was called
    seen,      \* per process, what next_avail_version last found in self.dir
    clobbered, \* per process, the writer of the file its last save-as replaced (-1: none)
    lastSaved, \* per process, the fields its latest successful increment_and_save saved
    prevSaved, \* per process, lastSaved when the method was called
    nops,      \* per process, the number of methods called so far
    x,         \* pure-function check: the SceneFile fields given to path()
    composed,  \* pure-function check: the result of path(), or NoPath
    parsed,    \* pure-function check: the result of _init_properties_from_path
    stage      \* pure-function check: "off", "input", "composed", "parsed"

fsVars   == <<files, dirs, writes>>
procVars == <<sceneName, ctorArgs, obj, pc, op, exc, ev, entry, before, seen,
              clobbered, lastSaved, prevSaved, nops>>
pureVars == <<x, composed, parsed, stage>>
vars     == <<fsVars, procVars, pureVars>>

(***************************************************************************)
(* Strings                                                                 *)
(***************************************************************************)
Digits == <<"0", "1", "2", "3", "4", "5", "6", "7", "8", "9">>

DigitSet == {Digits[i] : i \in 1..10}

DigitVal(c) == (CHOOSE i \in 1..10 : Digits[i] = c) - 1

\* str(n) for a non-negative integer
RECURSIVE ToDec(_)
ToDec(n) == IF n < 10 THEN <<Digits[n + 1]>>
            ELSE ToDec(n \div 10) \o <<Digits[(n % 10) + 1]>>

RECURSIVE ZeroPad(_, _)
ZeroPad(s, width) == IF Len(s) >= width THEN s ELSE ZeroPad(<<"0">> \o s, width)

\* "{:03d}".format(n): decimal, zero-padded to at least 3 characters
Format03d(n) == ZeroPad(ToDec(n), 3)

IsDecimal(s) == Len(s) > 0 /\ \A i \in 1..Len(s) : s[i] \in DigitSet

\* int(s) for a string of decimal digits
RECURSIVE ParseInt(_)
ParseInt(s) == IF Len(s) = 0 THEN 0
               ELSE 10 * ParseInt(SubSeq(s, 1, Len(s) - 1)) + DigitVal(s[Len(s)])

StartsWith(s, pre) == Len(s) >= Len(pre) /\ SubSeq(s, 1, Len(pre)) = pre

\* index of the first occurrence of sep in s, 0 when there is none
FindFirst(s, sep) ==
    LET hits == {i \in 1..Len(s) : StartsWith(SubSeq(s, i, Len(s)), sep)}
    IN  IF hits = {} THEN 0 ELSE CHOOSE i \in hits : \A j \in hits : i <= j

\* index of the last occurrence of character c in s, 0 when there is none
FindLastChar(s, c) ==
    LET hits == {i \in 1..Len(s) : s[i] = c}
    IN  IF hits = {} THEN 0 ELSE CHOOSE i \in hits : \A j \in hits : i >= j

\* str.split(sep): the list of the parts of s between occurrences of sep
RECURSIVE Split(_, _)
Split(s, sep) ==
    LET i == FindFirst(s, sep)
    IN  IF i = 0 THEN <<s>>
        ELSE <<SubSeq(s, 1, i - 1)>> \o Split(SubSeq(s, i + Len(sep), Len(s)), sep)

\* fnmatch.fnmatchcase(s, pat) for patterns made of literals and "*"
RECURSIVE GlobMatch(_, _)
GlobMatch(pat, s) ==
    IF Len(pat) = 0 THEN Len(s) = 0
    ELSE IF Head(pat) = "*"
         THEN \E k \in 0..Len(s) : GlobMatch(Tail(pat), SubSeq(s, k + 1, Len(s)))
         ELSE Len(s) > 0 /\ Head(s) = Head(pat) /\ GlobMatch(Tail(pat), Tail(s))

(***************************************************************************)
(* Paths (pymel.core.system.Path, POSIX flavour)                           *)
(***************************************************************************)
\* Path.name: the part after the last "/"
PathName(p) == SubSeq(p, FindLastChar(p, "/") + 1, Len(p))

RECURSIVE RStripSlash(_)
RStripSlash(s) == IF Len(s) > 0 /\ s[Len(s)] = "/"
                  THEN RStripSlash(SubSeq(s, 1, Len(s) - 1)) ELSE s

\* Path.dirname(): the part before the last "/", trailing slashes removed
\* unless the head consists of slashes only
PathDirname(p) ==
    LET head == SubSeq(p, 1, FindLastChar(p, "/"))
    IN  IF \A i \in 1..Len(head) : head[i] = "/" THEN head ELSE RStripSlash(head)

\* Path.ext: from the last "." of the name to the end; empty when the name
\* has no "." or only "." characters before the last one
PathExt(p) ==
    LET name == PathName(p)
        dot  == FindLastChar(name, ".")
    IN  IF dot = 0 \/ \A i \in 1..(dot - 1) : name[i] = "."
        THEN <<>> ELSE SubSeq(name, dot, Len(name))

\* Path(a) / b
PathJoin(a, b) ==
    IF Len(b) > 0 /\ b[1] = "/" THEN b
    ELSE IF Len(a) = 0 \/ a[Len(a)] = "/" THEN a \o b
    ELSE a \o <<"/">> \o b

(***************************************************************************)
(* SceneFile: composition and parsing                                      *)
(***************************************************************************)
SceneFile(dir, descriptor, version, ext) ==
    [dir |-> dir, descriptor |-> descriptor, version |-> version, ext |-> ext]

\* SceneFile.basename
basename(self) ==
    self.descriptor \o <<"_">> \o Format03d(self.version) \o <<".">> \o self.ext

\* SceneFile.path
path(self) == PathJoin(self.dir, basename(self))

\* SceneFile._init_properties_from_path: the fields after the call and the
\* exception it raised ("none" when it returned).  The assignments made
\* before a failing statement are kept.
init_properties_from_path(self, p) ==
    LET s1      == [self EXCEPT !.dir = PathDirname(p),
                                !.ext = IF Len(PathExt(p)) = 0 THEN <<>>
                                        ELSE Tail(PathExt(p))]
        parts   == Split(PathName(p), <<"_">>)
        verpart == Split(parts[2], <<".">>)[1]
        digits  == IF Len(verpart) = 0 THEN <<>> ELSE Tail(verpart)
    IN  IF Len(parts) # 2
        THEN [obj |-> s1, exc |-> "ValueError"]
        ELSE IF ~IsDecimal(digits)
        THEN [obj |-> [s1 EXCEPT !.descriptor = parts[1]], exc |-> "ValueError"]
        ELSE [obj |-> [s1 EXCEPT !.descriptor = parts[1],
                                     !.version = ParseInt(digits)],
              exc |-> "none"]

(***************************************************************************)
(* SceneFile: next version                                                 *)
(***************************************************************************)
\* list.sort() of list(set(...)): the elements of S in ascending order
RECURSIVE SortedSeq(_)
SortedSeq(S) ==
    IF S = {} THEN <<>>
    ELSE LET m == CHOOSE a \in S : \A b \in S : a <= b
         IN  <<m>> \o SortedSeq(S \ {m})

\* Path.files(): the files directly in directory dir
DirFiles(fs, dir) == {f \in fs : PathDirname(f) = dir}

\* the files of the directory whose name matches "{descriptor}_v*.{ext}"
matched_scenes(self, fs) ==
    LET pattern == self.descriptor \o <<"_", "v", "*", ".">> \o self.ext
    IN  {f \in DirFiles(fs, self.dir) : GlobMatch(pattern, PathName(f))}

\* scene.name.split("_v")[1].split(".")[0]
version_text(f) == Split(Split(PathName(f), <<"_", "v">>)[2], <<".">>)[1]

\* the sorted, de-duplicated version list of next_avail_version
version_list(self, fs) ==
    SortedSeq({ParseInt(version_text(f)) : f \in matched_scenes(self, fs)})

Raise(e)  == [exc |-> e, value |-> 0]
Return(v) == [exc |-> "none", value |-> v]

\* next_avail_version taking the first element of the sorted list
next_avail_version_first(self, fs, ds) ==
    IF self.dir \notin ds THEN Raise("OSError")
    ELSE IF \E f \in matched_scenes(self, fs) : ~IsDecimal(version_text(f))
    THEN Raise("ValueError")
    ELSE IF Len(version_list(self, fs)) = 0 THEN Raise("IndexError")
    ELSE Return(version_list(self, fs)[1] + 1)

\* next_avail_version starting at 1 when no version exists
next_avail_version_or_one(self, fs, ds) ==
    IF self.dir \notin ds THEN Raise("OSError")
    ELSE IF \E f \in matched_scenes(self, fs) : ~IsDecimal(version_text(f))
    THEN Raise("ValueError")
    ELSE IF Len(version_list(self, fs)) = 0 THEN Return(1)
    ELSE Return(version_list(self, fs)[Len(version_list(self, fs))] + 1)

\* next_avail_version counting from the object's own version when it is larger
next_avail_version_own(self, fs, ds) ==
    IF self.dir \notin ds THEN Raise("OSError")
    ELSE IF \E f \in matched_scenes(self, fs) : ~IsDecimal(version_text(f))
    THEN Raise("ValueError")
    ELSE IF Len(version_list(self, fs)) = 0 THEN Raise("IndexError")
    ELSE LET top == version_list(self, fs)[Len(version_list(self, fs))]
         IN  Return((IF self.version > top THEN self.version ELSE top) + 1)

\* SceneFile.next_avail_version, on file system (fs, ds)
next_avail_version(self, fs, ds) ==
    IF self.dir \notin ds THEN Raise("OSError")
    ELSE IF \E f \in matched_scenes(self, fs) : ~IsDecimal(version_text(f))
    THEN Raise("ValueError")
    ELSE IF Len(version_list(self, fs)) = 0 THEN Raise("IndexError")
    ELSE Return(version_list(self, fs)[Len(version_list(self, fs))] + 1)

\* increment_and_save that forgets the assignment
set_version_dropped(self, v) == self

\* self.version = <value> in increment_and_save
set_version(self, v) == [self EXCEPT !.version = v]

(***************************************************************************)
(* SceneFile: save                                                         *)
(***************************************************************************)
\* a bare "except:"
Caught_any(e) == TRUE

\* "except RuntimeError": the exceptions of the first save-as that save() handles
Caught(e) == e = "RuntimeError"

\* a second save-as whose failure is swallowed
second_call_swallowed(outcome) == "none"

\* the second save-as is outside any try: what it raises reaches the caller
second_call_raises(outcome) == IF outcome = "ok" THEN "none" ELSE outcome

\* Path.makedirs_p(): dir and every directory above it
Ancestors(dir) ==
    {SubSeq(dir, 1, i - 1) : i \in {j \in 1..Len(dir) : dir[j] = "/"}} \cup {dir}

\* host save-as: fails with RuntimeError when the target's directory is
\* missing; otherwise it writes the file, or fails with a RuntimeError of
\* another cause, or fails with an exception of another class
SaveAsOutcomes(target, ds) ==
    IF PathDirname(target) \notin ds THEN {"RuntimeError"}
    ELSE {"ok", "RuntimeError", "OtherError"}

SaveAsEvent(target, outcome, ds) ==
    [call |-> "saveAs", path |-> target, result |-> outcome,
     missing |-> PathDirname(target) \notin ds]

MakedirsEvent(dir) ==
    [call |-> "makedirs", path |-> dir, result |-> "ok", missing |-> FALSE]

(***************************************************************************)
(* Inputs                                                                  *)
(***************************************************************************)
Main  == <<"m", "a", "i", "n">>
Ship  == <<"s", "h", "i", "p">>
A_B   == <<"a", "_", "b">>
Ma    == <<"m", "a">>
T_G   == <<"t", ".", "g">>
Cwd   == <<>>
DirD  == <<"d">>
DirNW == <<"n", "/", "w">>

\* what a directory may hold when the program starts
ShipV001   == <<"d", "/", "s", "h", "i", "p", "_", "v", "0", "0", "1", ".", "m", "a">>
ShipV003   == <<"d", "/", "s", "h", "i", "p", "_", "v", "0", "0", "3", ".", "m", "a">>
ShipV3     == <<"d", "/", "s", "h", "i", "p", "_", "v", "3", ".", "m", "a">>
ShipV012Mb == <<"d", "/", "s", "h", "i", "p", "_", "v", "0", "1", "2", ".", "m", "b">>
CarV009    == <<"d", "/", "c", "a", "r", "_", "v", "0", "0", "9", ".", "m", "a">>
ShipVfin   == <<"d", "/", "s", "h", "i", "p", "_", "v", "f", "i", "n", ".", "m", "a">>
Notes      == <<"d", "/", "n", "o", "t", "e", "s", ".", "t", "x", "t">>

InitialFiles == {ShipV001, ShipV003, ShipV3, ShipV012Mb, CarV009, ShipVfin}
InitialDirs  == {Cwd, DirD}

NoScene == <<>>
Scenes  == {NoScene, ShipV003, Notes}

CtorDirs        == {Cwd, DirD, DirNW}
CtorDescriptors == {Main, Ship}
CtorVersions    == {1, 7}
CtorExts        == {Ma}

PureDirs        == {Cwd, DirD, DirNW}
PureDescriptors == {Main, Ship, A_B}
PureExts        == {Ma, T_G}
PureVersions    == {1, 7, 42, 99, 100, 123, 999, 1000}

\* the number of methods a caller invokes on one object
MaxOps == 2

\* the number of increment_and_save calls each racing process makes
MaxRaceOps == 1

Procs == {1, 2}

Defaults == SceneFile(Cwd, Main, 1, Ma)
NoPath   == <<"<", "n", "o", "n", "e", ">">>
NoSave   == SceneFile(NoPath, <<>>, 0, <<>>)
NotSeen  == [exists |-> FALSE, names |-> {}, at |-> 0]
NoParse  == [obj |-> SceneFile(<<>>, <<>>, 0, <<>>), exc |-> "unset"]

(***************************************************************************)
(* Initial states                                                          *)
(***************************************************************************)
PureOff ==
    /\ x = Defaults
    /\ composed = NoPath
    /\ parsed = NoParse
    /\ stage = "off"

ProcInit(start, objects) ==
    /\ ctorArgs = [p \in Procs |-> objects[p]]
    /\ obj = [p \in Procs |-> objects[p]]
    /\ pc = [p \in Procs |-> start[p]]
    /\ op = [p \in Procs |-> "none"]
    /\ exc = [p \in Procs |-> "none"]
    /\ ev = [p \in Procs |-> <<>>]
    /\ entry = [p \in Procs |-> objects[p]]
    /\ before = [p \in Procs |-> <<>>]
    /\ seen = [p \in Procs |-> NotSeen]
    /\ clobbered = [p \in Procs |-> -1]
    /\ lastSaved = [p \in Procs |-> NoSave]
    /\ prevSaved = [p \in Procs |-> NoSave]
    /\ nops = [p \in Procs |-> 0]

\* one process; the SceneFile is still to be constructed
Init ==
    /\ \E present \in SUBSET InitialFiles : files = [f \in present |-> 0]
    /\ dirs = InitialDirs
    /\ writes = 0
    /\ \E s \in Scenes : sceneName = [p \in Procs |-> s]
    /\ ProcInit([p \in Procs |-> IF p = 1 THEN "new" ELSE "off"], [p \in Procs |-> Defaults])
    /\ PureOff

(***************************************************************************)
(* Methods                                                                 *)
(***************************************************************************)
Begin(p, name, at, limit) ==
    /\ pc[p] = "idle"
    /\ nops[p] < limit
    /\ nops' = [nops EXCEPT ![p] = @ + 1]
    /\ op' = [op EXCEPT ![p] = name]
    /\ pc' = [pc EXCEPT ![p] = at]
    /\ exc' = [exc EXCEPT ![p] = "none"]
    /\ ev' = [ev EXCEPT ![p] = <<>>]
    /\ entry' = [entry EXCEPT ![p] = obj[p]]
    /\ before' = [before EXCEPT ![p] = files]
    /\ clobbered' = [clobbered EXCEPT ![p] = -1]
    /\ prevSaved' = [prevSaved EXCEPT ![p] = lastSaved[p]]

\* SceneFile.__init__
Construct(p) ==
    /\ pc[p] = "new"
    /\ \E d \in CtorDirs, n \in CtorDescriptors, v \in CtorVersions, e \in CtorExts :
         LET given == SceneFile(d, n, v, e)
             r     == IF sceneName[p] # NoScene
                      THEN init_properties_from_path(given, sceneName[p])
                      ELSE [obj |-> given, exc |-> "none"]
         IN  /\ ctorArgs' = [ctorArgs EXCEPT ![p] = given]
             /\ obj' = [obj EXCEPT ![p] = r.obj]
             /\ exc' = [exc EXCEPT ![p] = r.exc]
             /\ pc' = [pc EXCEPT ![p] = IF r.exc = "none" THEN "idle" ELSE "failed"]
    /\ op' = [op EXCEPT ![p] = "__init__"]
    /\ UNCHANGED <<fsVars, sceneName, ev, entry, before, seen, clobbered,
                   lastSaved, prevSaved, nops, pureVars>>

\* the dir property's setter
SetDir(p) ==
    /\ Begin(p, "dir.setter", "idle", MaxOps)
    /\ \E d \in CtorDirs : obj' = [obj EXCEPT ![p].dir = d]
    /\ UNCHANGED <<fsVars, sceneName, ctorArgs, seen, lastSaved, pureVars>>

\* the caller calls save()
CallSave(p) ==
    /\ Begin(p, "save", "saveAs1", MaxOps)
    /\ UNCHANGED <<fsVars, sceneName, ctorArgs, obj, seen, lastSaved, pureVars>>

\* the caller calls increment_and_save()
CallIncrementAndSave(p) ==
    /\ Begin(p, "increment_and_save", "scan", MaxOps)
    /\ UNCHANGED <<fsVars, sceneName, ctorArgs, obj, seen, lastSaved, pureVars>>

\* increment_and_save: self.version = self.next_avail_version()
Scan(p) ==
    /\ pc[p] = "scan"
    /\ LET r == next_avail_version(obj[p], DOMAIN files, dirs)
       IN  /\ obj' = [obj EXCEPT ![p] = IF r.exc = "none"
                                        THEN set_version(obj[p], r.value) ELSE @]
           /\ exc' = [exc EXCEPT ![p] = r.exc]
           /\ pc' = [pc EXCEPT ![p] = IF r.exc = "none" THEN "saveAs1" ELSE "idle"]
    /\ seen' = [seen EXCEPT ![p] = [exists |-> obj[p].dir \in dirs,
                                    names |-> DirFiles(DOMAIN files, obj[p].dir),
                                    at |-> writes]]
    /\ UNCHANGED <<fsVars, sceneName, ctorArgs, op, ev, entry, before, clobbered,
                   lastSaved, prevSaved, nops, pureVars>>

\* the file system after process p's save-as wrote target
Written(p, target) == [f \in DOMAIN files \cup {target} |-> IF f = target THEN p ELSE files[f]]

Finish(p, outcome) ==
    /\ files' = IF outcome = "ok" THEN Written(p, path(obj[p])) ELSE files
    /\ writes' = IF outcome = "ok" THEN writes + 1 ELSE writes
    /\ clobbered' = [clobbered EXCEPT ![p] =
                       IF outcome = "ok" /\ path(obj[p]) \in DOMAIN files
                       THEN files[path(obj[p])] ELSE @]
    /\ lastSaved' = [lastSaved EXCEPT ![p] =
                       IF outcome = "ok" /\ op[p] = "increment_and_save"
                       THEN obj[p] ELSE @]

\* save: the save-as in the try block
SaveAsFirst(p) ==
    /\ pc[p] = "saveAs1"
    /\ \E outcome \in SaveAsOutcomes(path(obj[p]), dirs) :
         /\ ev' = [ev EXCEPT ![p] = Append(@, SaveAsEvent(path(obj[p]), outcome, dirs))]
         /\ IF outcome # "ok" /\ Caught(outcome)
            THEN /\ pc' = [pc EXCEPT ![p] = "except"]
                 /\ UNCHANGED <<exc, files, writes, clobbered, lastSaved>>
            ELSE /\ pc' = [pc EXCEPT ![p] = "idle"]
                 /\ exc' = [exc EXCEPT ![p] = IF outcome = "ok" THEN "none" ELSE outcome]
                 /\ Finish(p, outcome)
    /\ UNCHANGED <<dirs, sceneName, ctorArgs, obj, op, entry, before, seen, prevSaved,
                   nops, pureVars>>

\* save: the except block's log.warning and self.dir.makedirs_p(), which
\* creates the directory and every missing directory above it
MakeDirs(p) ==
    /\ pc[p] = "except"
    /\ dirs' = dirs \cup Ancestors(obj[p].dir)
    /\ ev' = [ev EXCEPT ![p] = Append(@, MakedirsEvent(obj[p].dir))]
    /\ pc' = [pc EXCEPT ![p] = "saveAs2"]
    /\ UNCHANGED <<files, writes, sceneName, ctorArgs, obj, op, exc, entry, before, seen,
                   clobbered, lastSaved, prevSaved, nops, pureVars>>

\* save: the save-as in the except block
SaveAsSecond(p) ==
    /\ pc[p] = "saveAs2"
    /\ \E outcome \in SaveAsOutcomes(path(obj[p]), dirs) :
         /\ ev' = [ev EXCEPT ![p] = Append(@, SaveAsEvent(path(obj[p]), outcome, dirs))]
         /\ pc' = [pc EXCEPT ![p] = "idle"]
         /\ exc' = [exc EXCEPT ![p] = second_call_raises(outcome)]
         /\ Finish(p, outcome)
    /\ UNCHANGED <<dirs, sceneName, ctorArgs, obj, op, entry, before, seen, prevSaved,
                   nops, pureVars>>

Step(p) ==
    \/ Construct(p)
    \/ SetDir(p)
    \/ CallSave(p)
    \/ CallIncrementAndSave(p)
    \/ Scan(p)
    \/ SaveAsFirst(p)
    \/ MakeDirs(p)
    \/ SaveAsSecond(p)

Next == Step(1)

Spec == Init /\ [][Next]_vars

(***************************************************************************)
(* Two processes, each with its own SceneFile for the same directory,      *)
(* descriptor and extension, each calling increment_and_save               *)
(***************************************************************************)
\* the version each process's object holds when the race starts
RaceVersions == <<1, 7>>

InitRace ==
    /\ \E present \in SUBSET InitialFiles : files = [f \in present |-> 0]
    /\ dirs = InitialDirs
    /\ writes = 0
    /\ sceneName = [p \in Procs |-> NoScene]
    /\ ProcInit([p \in Procs |-> "idle"],
                [p \in Procs |-> SceneFile(DirD, Ship, RaceVersions[p], Ma)])
    /\ PureOff

\* a racing process calls increment_and_save()
RaceCall(p) ==
    /\ Begin(p, "increment_and_save", "scan", MaxRaceOps)
    /\ UNCHANGED <<fsVars, sceneName, ctorArgs, obj, seen, lastSaved, pureVars>>

RaceStep(p) ==
    \/ RaceCall(p)
    \/ Scan(p)
    \/ SaveAsFirst(p)
    \/ MakeDirs(p)
    \/ SaveAsSecond(p)

NextRace == \E p \in Procs : RaceStep(p)

SpecRace == InitRace /\ [][NextRace]_vars

(***************************************************************************)
(* Pure-function specification: compose a path, then parse it              *)
(***************************************************************************)
MainOff ==
    /\ files = <<>>
    /\ dirs = InitialDirs
    /\ writes = 0
    /\ sceneName = [p \in Procs |-> NoScene]
    /\ ProcInit([p \in Procs |-> "off"], [p \in Procs |-> Defaults])

InitPure ==
    /\ x \in {SceneFile(d, n, v, e) : d \in PureDirs, n \in PureDescriptors,
                                      v \in PureVersions, e \in PureExts}
    /\ composed = NoPath
    /\ parsed = NoParse
    /\ stage = "input"
    /\ MainOff

Compose ==
    /\ stage = "input"
    /\ composed' = path(x)
    /\ stage' = "composed"
    /\ UNCHANGED <<x, parsed, fsVars, procVars>>

\* the parse is applied to a default-constructed object, as __init__ does
Parse ==
    /\ stage = "composed"
    /\ parsed' = init_properties_from_path(Defaults, composed)
    /\ stage' = "parsed"
    /\ UNCHANGED <<x, composed, fsVars, procVars>>

NextPure == Compose \/ Parse

SpecPure == InitPure /\ [][NextPure]_vars

(***************************************************************************)
(* Claims about composition and parsing (SpecPure)                         *)
(***************************************************************************)
Chars(s) == {s[i] : i \in 1..Len(s)}

\* the fields the round trip is claimed for
RoundTripInput(f) ==
    /\ "_" \notin Chars(f.descriptor)
    /\ "." \notin Chars(f.ext)
    /\ f.version \in 1..999

\* C1: for every SceneFile whose descriptor has no underscore, whose
\* extension has no dot and whose version is in 1..999, parsing the path
\* composed from it yields exactly its directory, descriptor, version and
\* extension.
C1_RoundTrip ==
    (stage = "parsed" /\ RoundTripInput(x)) =>
        (parsed.exc = "none" /\ parsed.obj = x)

\* C2: basename() is "{descriptor}_v{version:03d}.{extension}": the version
\* follows the marker "_v" and is zero-padded to at least 3 digits, so that
\* version 7 renders as "_v007" and version 1000 as "_v1000".
C2_BasenameFormat ==
    stage = "composed" =>
        /\ PathName(composed) =
             x.descriptor \o <<"_", "v">> \o Format03d(x.version) \o <<".">> \o x.ext
        /\ x.version = 7 =>
             PathName(composed) = x.descriptor \o <<"_", "v", "0", "0", "7", ".">> \o x.ext
        /\ x.version = 1000 =>
             PathName(composed) =
               x.descriptor \o <<"_", "v", "1", "0", "0", "0", ".">> \o x.ext

(***************************************************************************)
(* Claims about one process (Spec)                                         *)
(***************************************************************************)
MainV001 == <<"m", "a", "i", "n", "_", "v", "0", "0", "1", ".", "m", "a">>

\* C8: constructed with no arguments and no scene open, the object has
\* descriptor "main", version 1, extension "ma" and the current directory,
\* and basename() is "main_v001.ma"; when the host reports an open scene,
\* all four fields are the values parsed from the scene's path, whatever the
\* constructor's arguments.
C8_Construction ==
    (op[1] = "__init__" /\ pc[1] = "idle") =>
        /\ (sceneName[1] = NoScene /\ ctorArgs[1] = Defaults) =>
             (obj[1] = SceneFile(Cwd, Main, 1, Ma) /\ basename(obj[1]) = MainV001)
        /\ sceneName[1] = ShipV003 => obj[1] = SceneFile(DirD, Ship, 3, Ma)

IncSave == "increment_and_save"

\* next_avail_version raised: the method is over and called no host function
ScanFailed(p) == op[p] = IncSave /\ pc[p] = "idle" /\ ev[p] = <<>>

\* next_avail_version returned a version
ScanReturned(p) == op[p] = IncSave /\ pc[p] # "scan" /\ ~ScanFailed(p)

\* name is "{descriptor}_v<anything>.{ext}"
NameMatches(name, descriptor, ext) ==
    LET pre == descriptor \o <<"_", "v">>
        suf == <<".">> \o ext
    IN  /\ Len(name) >= Len(pre) + Len(suf)
        /\ SubSeq(name, 1, Len(pre)) = pre
        /\ SubSeq(name, Len(name) - Len(suf) + 1, Len(name)) = suf

\* the files that next_avail_version found and that match the object's name
Matching(p) ==
    {f \in seen[p].names : NameMatches(PathName(f), entry[p].descriptor, entry[p].ext)}

\* the text between the first "_v" of a matching name and the next "."
VersionText(f) ==
    LET name == PathName(f)
        rest == SubSeq(name, FindFirst(name, <<"_", "v">>) + 2, Len(name))
    IN  SubSeq(rest, 1, FindFirst(rest, <<".">>) - 1)

Numbered(p) == {f \in Matching(p) : IsDecimal(VersionText(f))}

MaxOf(S) == CHOOSE a \in S : \A b \in S : a >= b

MaxVersion(p) == MaxOf({ParseInt(VersionText(f)) : f \in Numbered(p)})

C4_IncrementFromLargest ==
    (op[1] = IncSave /\ pc[1] = "idle" /\ exc[1] = "none") =>
        /\ \A f \in Numbered(1) : obj[1].version > ParseInt(VersionText(f))
        /\ path(obj[1]) \notin DOMAIN before[1]
        /\ [prevSaved[1] EXCEPT !.version = 0] = [obj[1] EXCEPT !.version = 0] =>
             obj[1].version > prevSaved[1].version

(***************************************************************************)
(* Claims about save()                                                     *)
(***************************************************************************)
InSave(p) == op[p] \in {"save", IncSave} /\ Len(ev[p]) > 0

SaveAsCalls(p) == {i \in 1..Len(ev[p]) : ev[p][i].call = "saveAs"}

C10_NoRollback ==
    (op[1] = IncSave /\ pc[1] = "idle") =>
        /\ ScanFailed(1) =>
             /\ exc[1] # "none"
             /\ obj[1] = entry[1]
             /\ SaveAsCalls(1) = {}
             /\ files = before[1]
        /\ (~ScanFailed(1) /\ exc[1] # "none") =>
             /\ Numbered(1) # {}
             /\ obj[1].version = MaxVersion(1) + 1
             /\ files = before[1]

\* save failed after the directory-creation retry
C10_Witness ==
    /\ op[1] = IncSave /\ pc[1] = "idle"
    /\ Len(ev[1]) = 3
    /\ exc[1] = "RuntimeError"
    /\ obj[1].version = 4
    /\ entry[1].version = 7

(***************************************************************************)
(* Claims about two processes (SpecRace)                                   *)
(***************************************************************************)
\* both processes resolved their next version before either saved: no file
\* was written between the two scans
ScannedAlike == ScanReturned(1) /\ ScanReturned(2) /\ seen[1].at = seen[2].at

BothSaved == \A p \in Procs : op[p] = IncSave /\ pc[p] = "idle" /\ exc[p] = "none"
                              /\ Len(ev[p]) > 0

\* C9: when two processes run increment_and_save for the same directory,
\* descriptor and extension and both scan before either saves, both resolve
\* the same next version and the same path, and when both saves succeed the
\* later one overwrites the file of the earlier one.
C9_RaceSameVersion ==
    ScannedAlike =>
        /\ seen[1].names = seen[2].names
        /\ obj[1].version = obj[2].version
        /\ path(obj[1]) = path(obj[2])
        /\ BothSaved =>
             /\ files[path(obj[1])] \in Procs
             /\ clobbered[1] = 2 \/ clobbered[2] = 1

\* both scanned, then both saved: the file of process 1 was replaced by
\* process 2 and a single new file exists
C9_Witness ==
    /\ ScannedAlike
    /\ BothSaved
    /\ path(obj[1]) \notin seen[1].names
    /\ clobbered[1] = -1
    /\ clobbered[2] = 1
    /\ files[path(obj[2])] = 2
    /\ Cardinality(DOMAIN files) = Cardinality(seen[1].names) + 1

====
